---- MODULE Spec2Model ----
(***************************************************************************)
(* Model of claim-migrator: `claim migrate` moves a Crossplane claim from  *)
(* one namespace to another (migrate.Cmd.Run) through the helpers of       *)
(* package resource (GetResource, CreateResource,                          *)
(* UpdateCompositeWithNewClaim, DeleteSourceClaim).                        *)
(*                                                                         *)
(* Strings are sequences of one-character strings, so that strings.Split,  *)
(* strings.ToLower and concatenation are computed and not assumed.         *)
(* The API server is the variable objs, a map from <<resource, namespace,  *)
(* name>> to the stored document; every remote call of the program is one  *)
(* atomic step against it.  Other writers and failing calls interleave     *)
(* with the steps of Run.                                                  *)
(*                                                                         *)
(* Spec is one invocation after another in a cluster with other writers    *)
(* and failing calls, SpecFair is Spec with Run taking its steps, SpecRace *)
(* is two invocations at once, SpecParse is the argument parsing and       *)
(* SpecGateway the gateway's reads on their own.                           *)
(***************************************************************************)
EXTENDS Integers, Sequences, FiniteSets, TLC

VARIABLES
    cmd,        \* the Cmd struct: Claim, Name, Namespace, DestNamespace
    objs,       \* API server: <<resource, namespace, name>> -> document
    pc,         \* position of Run
    ret,        \* error returned by Run (Nil for nil), meaningful at "done"
    res,        \* Run local: the parsed resource argument
    mapping,    \* Run local: the RESTMapping (sequence of 0 or 1)
    name,       \* Run local: the parsed claim name
    srcClaim,   \* Run local: document fetched from the source namespace
    dstClaim,   \* Run local: document returned by CreateResource
    got,        \* Run local: what the last GetResource returned
    cur,        \* retry closure local: document fetched in this attempt
    steps,      \* retry loop: backoff.Steps still available
    log,        \* history: remote calls issued by this run, in order
    start,      \* history: objs when this run started
    runs,       \* history: number of runs started
    prev,       \* history: how the run before this one ended (0 or 1)
    extLeft,    \* environment: writes other actors may still make
    faultsLeft, \* environment: remote calls that may still fail
    rival       \* a second invocation of the same command, see SpecRace

vars == <<cmd, objs, pc, ret, res, mapping, name, srcClaim, dstClaim, got,
          cur, steps, log, start, runs, prev, extLeft, faultsLeft, rival>>

locals == <<res, mapping, name, srcClaim, dstClaim, cur, steps>>

history == <<start, runs, prev>>

(***************************************************************************)
(* Bounds of the model.                                                    *)
(***************************************************************************)
MaxExt == 5         \* writes by other actors
MaxFaults == 1      \* remote calls failing for a reason other than conflict
MaxRuns == 2        \* invocations of the command
MaxTokenLen == 3    \* length of the claim argument when parsing is checked

(***************************************************************************)
(* Program constants.                                                      *)
(***************************************************************************)
RetrySteps == 5     \* retry.DefaultRetry.Steps

errCreateDestClaim == "cannot create destination claim "
errGetResource == "cannot get requested resource"
errGetMapping == "cannot get mapping for resource"
errMissingName == "missing name"
errNameDoubled == "name provided twice"
errNotNamespaced == " resource not namespaces"
errInvalidResource == "invalid resource"
errInvalidResourceAndName == "invalid resource and name"
errUnableToCreate == "unable to create new claim"
errUpdateComposite == "unable to update composite"
errDeleteSource == "unable to delete source claim"
errNamespaceMissing == "cannot create new claim, namespace does not exist"
errClaimExists == "Cannot create new claim: claim already exists"
errFmtResourceTypeNotFound == "the server doesn't have a resource type"
claimNamespaceLabel == "crossplane.io/claim-namespace"

(***************************************************************************)
(* Errors are chains of messages, outermost first; nil is the empty chain. *)
(* A message formatted by Errorf carries its arguments.                    *)
(***************************************************************************)
Nil == <<>>

\* errors.New
New(msg) == <<[msg |-> msg, args |-> <<>>]>>

\* errors.Errorf
Errorf(msg, args) == <<[msg |-> msg, args |-> args]>>

\* errors.Wrap returns nil when the wrapped error is nil
Wrap(err, msg) == IF err = Nil THEN Nil ELSE New(msg) \o err

\* what the API server and the transport answer
NotFound == New("NotFound")
Conflict == New("Conflict")
AlreadyExists == New("AlreadyExists")
ServerError == New("ServerError")
Invalid == New("Invalid")

IsNotFound(err) == err = NotFound
IsConflict(err) == err = Conflict

(***************************************************************************)
(* Strings.                                                                *)
(***************************************************************************)
Lower == [c \in {"B", "P", "C", "X", "N"} |->
            CASE c = "B" -> "b" [] c = "P" -> "p" [] c = "C" -> "c"
              [] c = "X" -> "x" [] c = "N" -> "n"]

\* strings.ToLower
ToLower(s) == [i \in 1..Len(s) |-> IF s[i] \in DOMAIN Lower THEN Lower[s[i]] ELSE s[i]]

\* strings.Split(s, "/"): the pieces between the separators, empty ones kept
RECURSIVE Split(_)
Split(s) ==
    IF \A i \in 1..Len(s) : s[i] # "/"
    THEN <<s>>
    ELSE LET i == CHOOSE j \in 1..Len(s) :
                      s[j] = "/" /\ \A k \in 1..(j - 1) : s[k] # "/"
         IN  <<SubSeq(s, 1, i - 1)>> \o Split(SubSeq(s, i + 1, Len(s)))

\* getResourceAndName without the check for a name given twice
getResourceAndName_NameIgnored(c) ==
    LET splittedResource == Split(c.Claim)
        length == Len(splittedResource)
    IN  IF c.Claim = <<>>
        THEN [res |-> <<>>, name |-> <<>>, err |-> New(errInvalidResource)]
        ELSE IF length = 1
        THEN IF c.Name = <<>>
             THEN [res |-> <<>>, name |-> <<>>, err |-> New(errMissingName)]
             ELSE [res |-> splittedResource[1], name |-> c.Name, err |-> Nil]
        ELSE IF length = 2
        THEN [res |-> splittedResource[1], name |-> splittedResource[2],
              err |-> Nil]
        ELSE [res |-> <<>>, name |-> <<>>, err |-> New(errInvalidResource)]

(***************************************************************************)
(* Cmd.getResourceAndName: [res, name, err].                               *)
(***************************************************************************)
getResourceAndName(c) ==
    LET splittedResource == Split(c.Claim)
        length == Len(splittedResource)
    IN  IF c.Claim = <<>>
        THEN [res |-> <<>>, name |-> <<>>, err |-> New(errInvalidResource)]
        ELSE IF length = 1
        THEN IF c.Name = <<>>
             THEN [res |-> <<>>, name |-> <<>>, err |-> New(errMissingName)]
             ELSE [res |-> splittedResource[1], name |-> c.Name, err |-> Nil]
        ELSE IF length = 2
        THEN IF c.Name # <<>>
             THEN [res |-> <<>>, name |-> <<>>, err |-> New(errNameDoubled)]
             ELSE [res |-> splittedResource[1], name |-> splittedResource[2],
                   err |-> Nil]
        ELSE [res |-> <<>>, name |-> <<>>, err |-> New(errInvalidResource)]

(***************************************************************************)
(* The cluster: what discovery advertises.  A type has a kind, the plural  *)
(* resource name its endpoint is served under, a scope, and the argument   *)
(* the REST mapper resolves to it.                                         *)
(***************************************************************************)
KindBox == <<"B", "o", "x">>
KindProxy == <<"P", "r", "o", "x", "y">>
KindCluster == <<"C", "f", "g">>
KindComposite == <<"X", "b", "o", "x">>
KindNamespace == <<"N", "a", "m", "e", "s", "p", "a", "c", "e">>

Discovery ==
    { [arg |-> <<"b">>, kind |-> KindBox,
       resource |-> <<"b", "o", "x", "s">>, namespaced |-> TRUE],
      [arg |-> <<"p">>, kind |-> KindProxy,
       resource |-> <<"p", "r", "o", "x", "i", "e", "s">>, namespaced |-> TRUE],
      [arg |-> <<"c">>, kind |-> KindCluster,
       resource |-> <<"c", "f", "g", "s">>, namespaced |-> FALSE],
      [arg |-> <<"x">>, kind |-> KindComposite,
       resource |-> <<"x", "b", "o", "x", "s">>, namespaced |-> FALSE],
      [arg |-> <<"n", "s">>, kind |-> KindNamespace,
       resource |-> <<"n", "a", "m", "e", "s", "p", "a", "c", "e", "s">>, namespaced |-> FALSE] }

\* resource.MappingFor: [mapping (0 or 1 of them), err]
MappingFor(resourceOrKindArg) ==
    LET hits == {d \in Discovery : d.arg = resourceOrKindArg}
    IN  IF hits = {}
        THEN [mapping |-> <<>>, err |-> New(errFmtResourceTypeNotFound)]
        ELSE [mapping |-> <<CHOOSE d \in hits : TRUE>>, err |-> Nil]

\* the GroupVersionResource the gateway addresses: strings.ToLower(ref.Kind) + "s"
ResourceOf(kind) == ToLower(kind) \o <<"s">>

\* the endpoint the gateway calls for a reference
KeyOf(ref) == <<ResourceOf(ref.kind), ref.namespace, ref.name>>

(***************************************************************************)
(* Documents (unstructured.Unstructured).  One shape serves every kind;    *)
(* resourceVersion 0 is the empty string; labels with an empty domain are  *)
(* the nil map; resourceRef and claimRef hold 0 or 1 reference.            *)
(***************************************************************************)
NoLabels == <<>>

Doc(kind, namespace, nm) ==
    [kind |-> kind, namespace |-> namespace, name |-> nm,
     resourceVersion |-> 0, uid |-> 0, labels |-> NoLabels,
     annotations |-> <<>>, finalizers |-> <<>>, deleting |-> FALSE,
     resourceRef |-> <<>>, claimRef |-> <<>>, data |-> "", ext |-> 0]

Ref(kind, namespace, nm) == [kind |-> kind, namespace |-> namespace, name |-> nm]

\* claim.Unstructured.GetReference: the claim's own reference
GetReference(xrcu) == Ref(xrcu.kind, xrcu.namespace, xrcu.name)

(***************************************************************************)
(* The API server.  Each verb answers [objs, doc, err] from the store o.   *)
(* A write gives the document its next resourceVersion; an update sent     *)
(* with another resourceVersion than the stored one is a conflict.         *)
(***************************************************************************)
Served(resource) == \E d \in Discovery : d.resource = resource

NamespaceKey(ns) == <<ResourceOf(KindNamespace), <<>>, ns>>

Max(S) == CHOOSE x \in S : \A y \in S : y <= x

NextUid(o) == 1 + Max({0} \cup {o[k].uid : k \in DOMAIN o})

ApiGet(o, key) ==
    IF key \in DOMAIN o
    THEN [objs |-> o, doc |-> <<o[key]>>, err |-> Nil]
    ELSE [objs |-> o, doc |-> <<>>, err |-> NotFound]

Without(o, key) == [k \in DOMAIN o \ {key} |-> o[k]]

ApiCreate(o, key, doc) ==
    IF \/ ~Served(key[1])
       \/ key[2] # <<>> /\ NamespaceKey(key[2]) \notin DOMAIN o
    THEN [objs |-> o, doc |-> <<>>, err |-> NotFound]
    ELSE IF doc.resourceVersion # 0 \/ doc.namespace # key[2] \/ doc.name # key[3]
    THEN [objs |-> o, doc |-> <<>>, err |-> Invalid]
    ELSE IF key \in DOMAIN o
    THEN [objs |-> o, doc |-> <<>>, err |-> AlreadyExists]
    ELSE LET stored == [doc EXCEPT !.resourceVersion = 1, !.uid = NextUid(o),
                                   !.deleting = FALSE]
         IN  [objs |-> (key :> stored) @@ o, doc |-> <<stored>>, err |-> Nil]

ApiUpdate(o, key, doc) ==
    IF key \notin DOMAIN o
    THEN [objs |-> o, doc |-> <<>>, err |-> NotFound]
    ELSE IF doc.resourceVersion = 0
    THEN [objs |-> o, doc |-> <<>>, err |-> Invalid]
    ELSE IF doc.resourceVersion # o[key].resourceVersion
    THEN [objs |-> o, doc |-> <<>>, err |-> Conflict]
    ELSE LET stored == [doc EXCEPT !.resourceVersion = o[key].resourceVersion + 1,
                                   !.uid = o[key].uid,
                                   !.deleting = o[key].deleting]
         IN  IF stored.deleting /\ stored.finalizers = <<>>
             THEN [objs |-> Without(o, key), doc |-> <<stored>>, err |-> Nil]
             ELSE [objs |-> [o EXCEPT ![key] = stored], doc |-> <<stored>>,
                   err |-> Nil]

\* a document with finalizers is only marked for deletion
ApiDelete(o, key) ==
    IF key \notin DOMAIN o
    THEN [objs |-> o, doc |-> <<>>, err |-> NotFound]
    ELSE IF o[key].finalizers # <<>>
    THEN [objs |-> [o EXCEPT ![key].deleting = TRUE,
                             ![key].resourceVersion = @ + 1],
          doc |-> <<>>, err |-> Nil]
    ELSE [objs |-> Without(o, key), doc |-> <<>>, err |-> Nil]

\* a call that fails before the server acts on it
Failed(o) == [objs |-> o, doc |-> <<>>, err |-> ServerError]

FaultChoices == IF faultsLeft > 0 THEN {FALSE, TRUE} ELSE {FALSE}

(***************************************************************************)
(* Package resource: the gateway.                                          *)
(***************************************************************************)
\* GetResource that reports a document that is not there as a failure
GetResource_NotFoundIsError(a) ==
    IF a.err # Nil
    THEN [doc |-> <<>>, found |-> FALSE, err |-> a.err]
    ELSE [doc |-> a.doc, found |-> TRUE, err |-> Nil]

\* GetResource: [doc, found, err] from the answer a of the server's Get
GetResource(a) ==
    IF a.err # Nil
    THEN IF IsNotFound(a.err)
         THEN [doc |-> <<>>, found |-> FALSE, err |-> Nil]
         ELSE [doc |-> <<>>, found |-> FALSE, err |-> a.err]
    ELSE [doc |-> a.doc, found |-> TRUE, err |-> Nil]

\* ResourceExists: [found, err]
ResourceExists(a) == LET g == GetResource(a) IN [found |-> g.found, err |-> g.err]

\* CreateResource: [doc, err] from the answer a of the server's Create
CreateResource(a) ==
    IF a.err # Nil
    THEN [doc |-> <<>>, err |-> Wrap(a.err, errUnableToCreate)]
    ELSE [doc |-> a.doc, err |-> Nil]

\* the document UpdateCompositeWithNewClaim sends: the fetched composite with
\* the claim reference and the claim-namespace label of the new claim
RepairedComposite(xru, xrcu) ==
    [xru EXCEPT !.claimRef = <<GetReference(xrcu)>>,
                !.labels = (claimNamespaceLabel :> xrcu.namespace) @@ xru.labels]

\* SeveredClaim that leaves the composite reference in place
SeveredClaim_KeepReference(u) == [u EXCEPT !.finalizers = <<>>]

\* SeveredClaim that leaves the finalizers in place
SeveredClaim_KeepFinalizers(u) == [u EXCEPT !.resourceRef = <<>>]

\* the document DeleteSourceClaim sends first: the fetched claim without its
\* composite reference and without finalizers
SeveredClaim(u) == [u EXCEPT !.resourceRef = <<>>, !.finalizers = <<>>]

\* what wait.ExponentialBackoff returns when the steps are used up
ErrWaitTimeout == New("timed out waiting for the condition")

\* OnError that reports the used-up budget and not the last conflict
OnError_Timeout(err, st) ==
    IF err = Nil THEN [again |-> FALSE, err |-> Nil]
    ELSE IF IsConflict(err)
    THEN IF st = 1 THEN [again |-> FALSE, err |-> ErrWaitTimeout]
         ELSE [again |-> TRUE, err |-> Nil]
    ELSE [again |-> FALSE, err |-> err]

\* a closure that fetches once and reuses that document in later attempts
Fetch_Stale(a, old) ==
    IF /\ old # <<>>
       /\ a.doc # <<>>
       /\ old[1].kind = a.doc[1].kind
       /\ old[1].namespace = a.doc[1].namespace
       /\ old[1].name = a.doc[1].name
    THEN old
    ELSE a.doc

\* the document a closure works on: the one its own Get returned, whatever
\* an earlier attempt fetched (part_000:71 and :104 are inside the closures)
Fetch(a, old) == a.doc

\* OnError that retries whatever the error is
OnError_RetryAll(err, st) ==
    IF err = Nil THEN [again |-> FALSE, err |-> Nil]
    ELSE IF st = 1 THEN [again |-> FALSE, err |-> err]
    ELSE [again |-> TRUE, err |-> Nil]

\* OnError that gives up at the first conflict
OnError_NoRetry(err, st) ==
    IF err = Nil THEN [again |-> FALSE, err |-> Nil]
    ELSE [again |-> FALSE, err |-> err]

\* retry.OnError under wait.ExponentialBackoff, after fn returned err with
\* st steps left: [again, err]
OnError(err, st) ==
    IF err = Nil THEN [again |-> FALSE, err |-> Nil]
    ELSE IF IsConflict(err)
    THEN IF st = 1 THEN [again |-> FALSE, err |-> err]
         ELSE [again |-> TRUE, err |-> Nil]
    ELSE [again |-> FALSE, err |-> err]

(***************************************************************************)
(* Cmd.Run: what each of its checks returns, [stop, ret].                  *)
(***************************************************************************)
Go == [stop |-> FALSE, ret |-> Nil]
Return(err) == [stop |-> TRUE, ret |-> err]

\* NamespaceCheck that goes on when the namespace is not found
NamespaceCheck_Unchecked(g, c) ==
    IF g.err # Nil THEN Return(Wrap(g.err, errGetResource)) ELSE Go

\* part_002:76-82, g the answer of GetResource for the namespace
NamespaceCheck(g, c) ==
    IF g.err # Nil THEN Return(Wrap(g.err, errGetResource))
    ELSE IF ~g.found THEN Return(Errorf(errNamespaceMissing, <<c.DestNamespace>>))
    ELSE Go

\* part_002:90-93
ParseCheck(p) ==
    IF p.err # Nil THEN Return(Wrap(p.err, errInvalidResourceAndName)) ELSE Go

\* part_002:95-101, m the answer of MappingFor
MappingCheck(m) ==
    IF m.err # Nil THEN Return(Wrap(m.err, errGetMapping))
    ELSE IF ~m.mapping[1].namespaced THEN Return(Wrap(m.err, errNotNamespaced))
    ELSE Go

\* part_002:110-117
SourceCheck(g) ==
    IF g.err # Nil THEN Return(Wrap(g.err, errGetResource))
    ELSE IF ~g.found THEN Return(Wrap(g.err, "source Claim not found"))
    ELSE Go

\* DestinationCheck that goes on when the destination claim is found
DestinationCheck_Overwrite(g, nm, c) ==
    IF g.err # Nil THEN Return(Wrap(g.err, errGetResource)) ELSE Go

\* part_002:128-134
DestinationCheck(g, nm, c) ==
    IF g.err # Nil THEN Return(Wrap(g.err, errGetResource))
    ELSE IF g.found THEN Return(Errorf(errClaimExists, <<nm, c.DestNamespace>>))
    ELSE Go

\* NewDstClaim that also drops the finalizers of the copy
NewDstClaim_NoFinalizers(src, c) ==
    [src EXCEPT !.namespace = c.DestNamespace, !.resourceVersion = 0,
                !.finalizers = <<>>]

\* part_002:137-139: the document sent to Create
NewDstClaim(src, c) ==
    [src EXCEPT !.namespace = c.DestNamespace, !.resourceVersion = 0]

\* CreateCheck that goes on whatever CreateResource returned
CreateCheck_Ignored(r) == Go

\* part_002:141-144
CreateCheck(r) ==
    IF r.err # Nil THEN Return(Wrap(r.err, errCreateDestClaim)) ELSE Go

\* CompositeCheck that goes on to the source claim whatever the repair returned
CompositeCheck_Ignored(err) == Go

\* part_002:154-157
CompositeCheck(err) ==
    IF err # Nil THEN Return(Wrap(err, errUpdateComposite)) ELSE Go

\* part_002:162-165
DeleteCheck(err) ==
    IF err # Nil THEN Return(Wrap(err, errDeleteSource)) ELSE Go

srcClaimRef == Ref(mapping[1].kind, cmd.Namespace, name)
dstClaimRef == Ref(mapping[1].kind, cmd.DestNamespace, name)

(***************************************************************************)
(* Initial states: a command line and a cluster.  The cluster holds        *)
(* namespace a, possibly namespace b, and of the claim type the command    *)
(* names possibly a claim n in a, possibly one in b, and possibly the      *)
(* composite x the claim in a is bound to.                                 *)
(***************************************************************************)
NsA == <<"a">>
NsB == <<"b">>
NameN == <<"n">>
NameX == <<"x">>

Claims == { <<"b", "/", "n">>, <<"b">>, <<"p", "/", "n">>, <<"c", "/", "n">>,
            <<"z", "/", "n">> }

Cmds == [Claim : Claims, Name : {<<>>, NameN}, Namespace : {NsA},
         DestNamespace : {NsA, NsB}]

\* the kind of the claims the cluster holds: the one the command names
WorldKind(c) ==
    LET m == MappingFor(getResourceAndName(c).res)
    IN  IF m.err = Nil /\ m.mapping[1].namespaced THEN m.mapping[1].kind ELSE KindBox

ActualKey(kind, namespace, nm) ==
    <<(CHOOSE d \in Discovery : d.kind = kind).resource, namespace, nm>>

SourceDocs(kind) ==
    { [Doc(kind, NsA, NameN) EXCEPT !.resourceVersion = 1, !.uid = 1,
                                    !.finalizers = f, !.resourceRef = r,
                                    !.data = "spec", !.annotations = <<"note">>,
                                    !.labels = ("team" :> <<"t">>)] :
        f \in {<<>>, <<"f">>},
        r \in {<<>>, <<Ref(KindComposite, <<>>, NameX)>>} }

DestDoc(kind) ==
    [Doc(kind, NsB, NameN) EXCEPT !.resourceVersion = 1, !.uid = 2,
                                  !.data = "other"]

CompositeDocs(kind) ==
    { [Doc(KindComposite, <<>>, NameX) EXCEPT
          !.resourceVersion = 1, !.uid = 3, !.labels = l,
          !.claimRef = <<Ref(kind, NsA, NameN)>>] :
        l \in {NoLabels, (claimNamespaceLabel :> NsA)} }

NamespaceDoc(ns) ==
    [Doc(KindNamespace, <<>>, ns) EXCEPT !.resourceVersion = 1, !.uid = 4]

Opt(key, docs) == IF docs = <<>> THEN <<>> ELSE (key :> docs[1])

Worlds(c) ==
    LET k == WorldKind(c)
        some(S) == {<<>>} \cup {<<d>> : d \in S}
    IN  { Opt(ActualKey(KindNamespace, <<>>, NsA), <<NamespaceDoc(NsA)>>)
          @@ Opt(ActualKey(KindNamespace, <<>>, NsB), nsb)
          @@ Opt(ActualKey(k, NsA, NameN), src)
          @@ Opt(ActualKey(k, NsB, NameN), dst)
          @@ Opt(ActualKey(KindComposite, <<>>, NameX), xr) :
            <<nsb, src, dst, xr>> \in
                { w \in some({NamespaceDoc(NsB)}) \X some(SourceDocs(k))
                          \X some({DestDoc(k)}) \X some(CompositeDocs(k)) :
                    w[3] # <<>> => w[1] # <<>> } }

\* before the first GetResource of a run
NoResult == [doc |-> <<>>, found |-> FALSE, err |-> Nil]

\* the locals of a second invocation, which has not yet started when "off"
RivalAt(at) ==
    [pc |-> at, ret |-> Nil, srcClaim |-> <<>>, dstClaim |-> <<>>, cur |-> <<>>,
     steps |-> RetrySteps, log |-> <<>>]

InitRun ==
    /\ pc = "start"
    /\ got = NoResult
    /\ ret = Nil
    /\ res = <<>>
    /\ mapping = <<>>
    /\ name = <<>>
    /\ srcClaim = <<>>
    /\ dstClaim = <<>>
    /\ cur = <<>>
    /\ steps = RetrySteps
    /\ log = <<>>

Init ==
    /\ cmd \in Cmds
    /\ objs \in Worlds(cmd)
    /\ InitRun
    /\ start = objs
    /\ runs = 1
    /\ prev = <<>>
    /\ extLeft = MaxExt
    /\ faultsLeft = MaxFaults
    /\ rival = RivalAt("off")

(***************************************************************************)
(* Cmd.Run, one action per remote call.  A call fails without reaching the *)
(* server when fault is chosen.                                            *)
(***************************************************************************)
Call(verb, key, doc, err) == [verb |-> verb, key |-> key, doc |-> doc, err |-> err]

Spend(fault) == faultsLeft' = IF fault THEN faultsLeft - 1 ELSE faultsLeft

nsRef == Ref(KindNamespace, <<>>, cmd.DestNamespace)

\* part_002:69-83
ValidateDestination ==
    /\ pc = "start"
    /\ \E fault \in FaultChoices :
         LET a == IF fault THEN Failed(objs) ELSE ApiGet(objs, KeyOf(nsRef))
             chk == NamespaceCheck(GetResource(a), cmd)
         IN  /\ Spend(fault)
             /\ got' = GetResource(a)
             /\ log' = Append(log, Call("get", KeyOf(nsRef), a.doc, a.err))
             /\ pc' = IF chk.stop THEN "done" ELSE "resolve"
             /\ ret' = chk.ret
    /\ UNCHANGED <<rival, cmd, objs, locals, history, extLeft>>

\* part_002:85-101; discovery is read when the mapping is looked up
ResolveType ==
    /\ pc = "resolve"
    /\ \E fault \in FaultChoices :
         LET p == getResourceAndName(cmd)
             m == IF fault THEN [mapping |-> <<>>, err |-> ServerError]
                  ELSE MappingFor(p.res)
             chk == IF ParseCheck(p).stop THEN ParseCheck(p) ELSE MappingCheck(m)
             asked == ~ParseCheck(p).stop
         IN  /\ fault => asked
             /\ Spend(fault)
             /\ log' = IF asked
                       THEN Append(log, Call("discover", <<>>, <<>>, m.err))
                       ELSE log
             /\ res' = p.res
             /\ name' = p.name
             /\ mapping' = IF chk.stop THEN <<>> ELSE m.mapping
             /\ pc' = IF chk.stop THEN "done" ELSE "getsrc"
             /\ ret' = chk.ret
    /\ UNCHANGED <<rival, got, cmd, objs, srcClaim, dstClaim, cur, steps, history,
                   extLeft>>

\* part_002:103-118
CheckSource ==
    /\ pc = "getsrc"
    /\ \E fault \in FaultChoices :
         LET a == IF fault THEN Failed(objs) ELSE ApiGet(objs, KeyOf(srcClaimRef))
             g == GetResource(a)
             chk == SourceCheck(g)
         IN  /\ Spend(fault)
             /\ got' = GetResource(a)
             /\ log' = Append(log, Call("get", KeyOf(srcClaimRef), a.doc, a.err))
             /\ srcClaim' = g.doc
             /\ pc' = IF chk.stop THEN "done" ELSE "getdst"
             /\ ret' = chk.ret
    /\ UNCHANGED <<rival, cmd, objs, res, mapping, name, dstClaim, cur, steps, history,
                   extLeft>>

\* part_002:120-134
CheckDestinationAbsence ==
    /\ pc = "getdst"
    /\ \E fault \in FaultChoices :
         LET a == IF fault THEN Failed(objs) ELSE ApiGet(objs, KeyOf(dstClaimRef))
             chk == DestinationCheck(GetResource(a), name, cmd)
         IN  /\ Spend(fault)
             /\ got' = GetResource(a)
             /\ log' = Append(log, Call("get", KeyOf(dstClaimRef), a.doc, a.err))
             /\ pc' = IF chk.stop THEN "done" ELSE "create"
             /\ ret' = chk.ret
    /\ UNCHANGED <<rival, cmd, objs, locals, history, extLeft>>

\* part_002:136-151 and part_000:45-59.  GetResourceReference of a claim
\* without spec.resourceRef is nil, and UpdateCompositeWithNewClaim
\* dereferences it (part_000:63-67), as part_002:146 would the nil document
\* of a Create that failed.
CreateDestination ==
    /\ pc = "create"
    /\ \E fault \in FaultChoices :
         LET doc == NewDstClaim(srcClaim[1], cmd)
             a == IF fault THEN Failed(objs)
                  ELSE ApiCreate(objs, KeyOf(dstClaimRef), doc)
             r == CreateResource(a)
             chk == CreateCheck(r)
         IN  /\ Spend(fault)
             /\ log' = Append(log, Call("create", KeyOf(dstClaimRef), <<doc>>, a.err))
             /\ objs' = a.objs
             /\ dstClaim' = r.doc
             /\ pc' = IF chk.stop THEN "done"
                      ELSE IF r.doc = <<>> \/ r.doc[1].resourceRef = <<>> THEN "panic"
                      ELSE "xr_get"
             /\ ret' = chk.ret
    /\ steps' = RetrySteps
    /\ UNCHANGED <<rival, got, cmd, res, mapping, name, srcClaim, cur, history,
                   extLeft>>

(***************************************************************************)
(* The three retry.RetryOnConflict loops.  After the closure returned err, *)
(* the loop either runs it again or ends, and Run either returns or goes   *)
(* on to what follows the loop: [pc, ret, steps].                          *)
(***************************************************************************)
AfterClosure(err, st, again, chk, next) ==
    LET d == OnError(err, st)
    IN  IF d.again THEN [pc |-> again, ret |-> Nil, steps |-> st - 1]
        ELSE IF chk.stop THEN [pc |-> "done", ret |-> chk.ret, steps |-> st]
        ELSE [pc |-> next, ret |-> Nil, steps |-> RetrySteps]

\* part_000:70-91 then part_002:154-157
AfterRepair(err, st) ==
    AfterClosure(err, st, "xr_get", CompositeCheck(OnError(err, st).err), "sev_get")

\* part_000:103-121 then part_002:162-165
AfterSever(err, st) ==
    AfterClosure(err, st, "sev_get", DeleteCheck(OnError(err, st).err), "del_get")

\* part_000:123-136 then part_002:162-168
AfterDelete(err, st) ==
    AfterClosure(err, st, "del_get", DeleteCheck(OnError(err, st).err), "done")

xrRef == dstClaim[1].resourceRef[1]

\* part_000:71-83: the closure's Get; writing a label into the nil map of a
\* composite without labels panics
RepairGet ==
    /\ pc = "xr_get"
    /\ \E fault \in FaultChoices :
         LET a == IF fault THEN Failed(objs) ELSE ApiGet(objs, KeyOf(xrRef))
             n == AfterRepair(a.err, steps)
         IN  /\ Spend(fault)
             /\ log' = Append(log, Call("get", KeyOf(xrRef), a.doc, a.err))
             /\ cur' = Fetch(a, cur)
             /\ pc' = IF a.err # Nil THEN n.pc
                      ELSE IF DOMAIN a.doc[1].labels = {} THEN "panic"
                      ELSE "xr_update"
             /\ ret' = IF a.err # Nil THEN n.ret ELSE Nil
             /\ steps' = IF a.err # Nil THEN n.steps ELSE steps
    /\ UNCHANGED <<rival, got, cmd, objs, res, mapping, name, srcClaim, dstClaim, history,
                   extLeft>>

\* part_000:85-86
RepairUpdate ==
    /\ pc = "xr_update"
    /\ \E fault \in FaultChoices :
         LET doc == RepairedComposite(cur[1], dstClaim[1])
             a == IF fault THEN Failed(objs) ELSE ApiUpdate(objs, KeyOf(xrRef), doc)
             n == AfterRepair(a.err, steps)
         IN  /\ Spend(fault)
             /\ log' = Append(log, Call("update", KeyOf(xrRef), <<doc>>, a.err))
             /\ objs' = a.objs
             /\ pc' = n.pc
             /\ ret' = n.ret
             /\ steps' = n.steps
    /\ UNCHANGED <<rival, got, cmd, res, mapping, name, srcClaim, dstClaim, cur, history,
                   extLeft>>

\* part_000:104-107
SeverGet ==
    /\ pc = "sev_get"
    /\ \E fault \in FaultChoices :
         LET a == IF fault THEN Failed(objs) ELSE ApiGet(objs, KeyOf(srcClaimRef))
             n == AfterSever(a.err, steps)
         IN  /\ Spend(fault)
             /\ log' = Append(log, Call("get", KeyOf(srcClaimRef), a.doc, a.err))
             /\ cur' = Fetch(a, cur)
             /\ pc' = IF a.err # Nil THEN n.pc ELSE "sev_update"
             /\ ret' = IF a.err # Nil THEN n.ret ELSE Nil
             /\ steps' = IF a.err # Nil THEN n.steps ELSE steps
    /\ UNCHANGED <<rival, got, cmd, objs, res, mapping, name, srcClaim, dstClaim, history,
                   extLeft>>

\* part_000:108-116
SeverUpdate ==
    /\ pc = "sev_update"
    /\ \E fault \in FaultChoices :
         LET doc == SeveredClaim(cur[1])
             a == IF fault THEN Failed(objs)
                  ELSE ApiUpdate(objs, KeyOf(srcClaimRef), doc)
             n == AfterSever(a.err, steps)
         IN  /\ Spend(fault)
             /\ log' = Append(log, Call("update", KeyOf(srcClaimRef), <<doc>>, a.err))
             /\ objs' = a.objs
             /\ pc' = n.pc
             /\ ret' = n.ret
             /\ steps' = n.steps
    /\ UNCHANGED <<rival, got, cmd, res, mapping, name, srcClaim, dstClaim, cur, history,
                   extLeft>>

\* part_000:124-128
DeleteGet ==
    /\ pc = "del_get"
    /\ \E fault \in FaultChoices :
         LET a == IF fault THEN Failed(objs) ELSE ApiGet(objs, KeyOf(srcClaimRef))
             n == AfterDelete(a.err, steps)
         IN  /\ Spend(fault)
             /\ log' = Append(log, Call("get", KeyOf(srcClaimRef), a.doc, a.err))
             /\ pc' = IF a.err # Nil THEN n.pc ELSE "del_delete"
             /\ ret' = IF a.err # Nil THEN n.ret ELSE Nil
             /\ steps' = IF a.err # Nil THEN n.steps ELSE steps
    /\ UNCHANGED <<rival, got, cmd, objs, res, mapping, name, srcClaim, dstClaim, cur, history,
                   extLeft>>

\* part_000:129-130
DeleteDelete ==
    /\ pc = "del_delete"
    /\ \E fault \in FaultChoices :
         LET a == IF fault THEN Failed(objs) ELSE ApiDelete(objs, KeyOf(srcClaimRef))
             n == AfterDelete(a.err, steps)
         IN  /\ Spend(fault)
             /\ log' = Append(log, Call("delete", KeyOf(srcClaimRef), <<>>, a.err))
             /\ objs' = a.objs
             /\ pc' = n.pc
             /\ ret' = n.ret
             /\ steps' = n.steps
    /\ UNCHANGED <<rival, got, cmd, res, mapping, name, srcClaim, dstClaim, cur, history,
                   extLeft>>

(***************************************************************************)
(* The environment.                                                        *)
(***************************************************************************)
Running == pc \notin {"done", "panic"}

\* the document Run has fetched and not yet written back or acted upon
Fetched ==
    CASE pc = "create" -> {KeyOf(srcClaimRef)}
      [] pc = "xr_update" -> {KeyOf(xrRef)}
      [] pc \in {"sev_update", "del_delete"} -> {KeyOf(srcClaimRef)}
      [] OTHER -> {}

\* Another actor (a controller, a user) writes a field Run does not set, of
\* the composite or of the claim in the source namespace, between Run's
\* fetch of that document and Run's next call.  A write at another moment is
\* seen by the fetch that follows it and is left out.
ExternalWrite ==
    /\ extLeft > 0
    /\ \E key \in Fetched \cap DOMAIN objs :
         objs' = [objs EXCEPT ![key].ext = @ + 1,
                              ![key].resourceVersion = @ + 1]
    /\ extLeft' = extLeft - 1
    /\ UNCHANGED <<rival, got, cmd, pc, ret, locals, log, history, faultsLeft>>

\* the fourth call of a run is the destination-absence check
DestinationFound ==
    /\ Len(log) >= 4
    /\ log[4].verb = "get"
    /\ log[4].err = Nil

\* the command is run again, against the cluster as the last run left it
Rerun ==
    /\ ~Running
    /\ runs < MaxRuns
    /\ runs' = runs + 1
    /\ start' = objs
    /\ pc' = "start"
    /\ ret' = Nil
    /\ prev' = <<[ret |-> ret, start |-> start, found |-> DestinationFound]>>
    /\ res' = <<>>
    /\ mapping' = <<>>
    /\ name' = <<>>
    /\ srcClaim' = <<>>
    /\ dstClaim' = <<>>
    /\ cur' = <<>>
    /\ steps' = RetrySteps
    /\ got' = NoResult
    /\ log' = <<>>
    /\ UNCHANGED <<rival, cmd, objs, extLeft, faultsLeft>>

Next ==
    \/ ValidateDestination
    \/ ResolveType
    \/ CheckSource
    \/ CheckDestinationAbsence
    \/ CreateDestination
    \/ RepairGet
    \/ RepairUpdate
    \/ SeverGet
    \/ SeverUpdate
    \/ DeleteGet
    \/ DeleteDelete
    \/ ExternalWrite
    \/ Rerun

Spec == Init /\ [][Next]_vars

\* the steps of Run; one thread runs them to completion, every remote call
\* returns and every backoff sleep ends
RunStep ==
    \/ ValidateDestination
    \/ ResolveType
    \/ CheckSource
    \/ CheckDestinationAbsence
    \/ CreateDestination
    \/ RepairGet
    \/ RepairUpdate
    \/ SeverGet
    \/ SeverUpdate
    \/ DeleteGet
    \/ DeleteDelete

SpecFair == Spec /\ WF_vars(RunStep)

(***************************************************************************)
(* Two invocations of the same command against one cluster.  The second    *)
(* runs the steps of Run on locals of its own, the record rival; its calls *)
(* interleave with those of the first, one remote call at a time.          *)
(***************************************************************************)
RivalDid(r, at, verb, key, doc, err, e) ==
    [r EXCEPT !.pc = at, !.ret = e, !.log = Append(@, Call(verb, key, doc, err))]

\* part_002:69-151, the calls before the retry loops
RivalChecks(r, o) ==
    LET p == getResourceAndName(cmd)
        m == MappingFor(p.res)
        src == Ref(m.mapping[1].kind, cmd.Namespace, p.name)
        dst == Ref(m.mapping[1].kind, cmd.DestNamespace, p.name)
    IN  CASE r.pc = "start" ->
               LET a == ApiGet(o, KeyOf(nsRef))
                   chk == NamespaceCheck(GetResource(a), cmd)
               IN  [objs |-> o,
                    r |-> RivalDid(r, IF chk.stop THEN "done" ELSE "resolve", "get",
                                   KeyOf(nsRef), a.doc, a.err, chk.ret)]
          [] r.pc = "resolve" ->
               LET chk == IF ParseCheck(p).stop THEN ParseCheck(p) ELSE MappingCheck(m)
               IN  [objs |-> o,
                    r |-> IF ParseCheck(p).stop
                          THEN [r EXCEPT !.pc = "done", !.ret = chk.ret]
                          ELSE RivalDid(r, IF chk.stop THEN "done" ELSE "getsrc",
                                        "discover", <<>>, <<>>, m.err, chk.ret)]
          [] r.pc = "getsrc" ->
               LET a == ApiGet(o, KeyOf(src))
                   g == GetResource(a)
                   chk == SourceCheck(g)
               IN  [objs |-> o,
                    r |-> [RivalDid(r, IF chk.stop THEN "done" ELSE "getdst", "get",
                                    KeyOf(src), a.doc, a.err, chk.ret)
                             EXCEPT !.srcClaim = g.doc]]
          [] r.pc = "getdst" ->
               LET a == ApiGet(o, KeyOf(dst))
                   chk == DestinationCheck(GetResource(a), p.name, cmd)
               IN  [objs |-> o,
                    r |-> RivalDid(r, IF chk.stop THEN "done" ELSE "create", "get",
                                   KeyOf(dst), a.doc, a.err, chk.ret)]
          [] r.pc = "create" ->
               LET doc == NewDstClaim(r.srcClaim[1], cmd)
                   a == ApiCreate(o, KeyOf(dst), doc)
                   c == CreateResource(a)
                   chk == CreateCheck(c)
                   at == IF chk.stop THEN "done"
                         ELSE IF c.doc = <<>> \/ c.doc[1].resourceRef = <<>>
                         THEN "panic"
                         ELSE "xr_get"
               IN  [objs |-> a.objs,
                    r |-> [RivalDid(r, at, "create", KeyOf(dst), <<doc>>, a.err, chk.ret)
                             EXCEPT !.dstClaim = c.doc, !.steps = RetrySteps]]

\* part_000:69-91 and :102-134, the retry loops
RivalLoops(r, o) ==
    LET p == getResourceAndName(cmd)
        m == MappingFor(p.res)
        src == Ref(m.mapping[1].kind, cmd.Namespace, p.name)
        xr == r.dstClaim[1].resourceRef[1]
        after(n, verb, key, doc, err) ==
            [RivalDid(r, n.pc, verb, key, doc, err, n.ret) EXCEPT !.steps = n.steps]
        fetched(n, at, key, a) ==
            IF a.err # Nil THEN after(n, "get", key, a.doc, a.err)
            ELSE RivalDid(r, at, "get", key, a.doc, a.err, Nil)
    IN  CASE r.pc = "xr_get" ->
               LET a == ApiGet(o, KeyOf(xr))
                   at == IF DOMAIN a.doc[1].labels = {} THEN "panic" ELSE "xr_update"
               IN  [objs |-> o,
                    r |-> [fetched(AfterRepair(a.err, r.steps), at, KeyOf(xr), a)
                             EXCEPT !.cur = Fetch(a, r.cur)]]
          [] r.pc = "xr_update" ->
               LET doc == RepairedComposite(r.cur[1], r.dstClaim[1])
                   a == ApiUpdate(o, KeyOf(xr), doc)
               IN  [objs |-> a.objs,
                    r |-> after(AfterRepair(a.err, r.steps), "update", KeyOf(xr),
                                <<doc>>, a.err)]
          [] r.pc = "sev_get" ->
               LET a == ApiGet(o, KeyOf(src))
               IN  [objs |-> o,
                    r |-> [fetched(AfterSever(a.err, r.steps), "sev_update", KeyOf(src), a)
                             EXCEPT !.cur = Fetch(a, r.cur)]]
          [] r.pc = "sev_update" ->
               LET doc == SeveredClaim(r.cur[1])
                   a == ApiUpdate(o, KeyOf(src), doc)
               IN  [objs |-> a.objs,
                    r |-> after(AfterSever(a.err, r.steps), "update", KeyOf(src),
                                <<doc>>, a.err)]
          [] r.pc = "del_get" ->
               LET a == ApiGet(o, KeyOf(src))
               IN  [objs |-> o,
                    r |-> fetched(AfterDelete(a.err, r.steps), "del_delete", KeyOf(src), a)]
          [] r.pc = "del_delete" ->
               LET a == ApiDelete(o, KeyOf(src))
               IN  [objs |-> a.objs,
                    r |-> after(AfterDelete(a.err, r.steps), "delete", KeyOf(src),
                                <<>>, a.err)]

\* one remote call of the second invocation
RivalStep ==
    /\ rival.pc \notin {"off", "done", "panic"}
    /\ LET n == IF rival.pc \in {"start", "resolve", "getsrc", "getdst", "create"}
                THEN RivalChecks(rival, objs)
                ELSE RivalLoops(rival, objs)
       IN  /\ rival' = n.r
           /\ objs' = n.objs
    /\ UNCHANGED <<cmd, pc, ret, got, locals, log, history, extLeft, faultsLeft>>

\* both invocations start in the same cluster; no call fails for another
\* reason than the other invocation, and no third actor writes
InitRace ==
    /\ cmd \in Cmds
    /\ objs \in Worlds(cmd)
    /\ InitRun
    /\ start = objs
    /\ runs = 1
    /\ prev = <<>>
    /\ extLeft = 0
    /\ faultsLeft = 0
    /\ rival = RivalAt("start")

NextRace == RunStep \/ RivalStep

SpecRace == InitRace /\ [][NextRace]_vars

(***************************************************************************)
(* Argument parsing on its own: every claim argument up to MaxTokenLen     *)
(* characters, with and without a separate name.                           *)
(***************************************************************************)
Alphabet == {"b", "n", "/"}

Tokens == UNION {[1..k -> Alphabet] : k \in 0..MaxTokenLen}

InitParse ==
    /\ cmd \in [Claim : Tokens, Name : {<<>>, NameN}, Namespace : {NsA},
                DestNamespace : {NsB}]
    /\ objs = ActualKey(KindNamespace, <<>>, NsA) :> NamespaceDoc(NsA)
    /\ InitRun
    /\ start = objs
    /\ runs = 1
    /\ prev = <<>>
    /\ extLeft = 0
    /\ faultsLeft = 0
    /\ rival = RivalAt("off")

\* part_002:90 alone
ParseArgs ==
    /\ pc = "start"
    /\ LET p == getResourceAndName(cmd)
       IN  /\ res' = p.res
           /\ name' = p.name
           /\ ret' = p.err
    /\ pc' = "parsed"
    /\ UNCHANGED <<rival, got, cmd, objs, mapping, srcClaim, dstClaim, cur, steps, log,
                   history, extLeft, faultsLeft>>

NextParse == ParseArgs

SpecParse == InitParse /\ [][NextParse]_vars

(***************************************************************************)
(* What the properties speak of.                                           *)
(***************************************************************************)
Mutating == {"create", "update", "delete"}

Wrote == \E i \in 1..Len(log) : log[i].verb \in Mutating

\* the type and the name the command line names
CmdArgs == getResourceAndName(cmd)
CmdType == MappingFor(CmdArgs.res)
CmdResolves == CmdArgs.err = Nil /\ CmdType.err = Nil
CmdKind == CmdType.mapping[1].kind

\* where the cluster keeps the claim, the copy and the composite
SourceKey == ActualKey(CmdKind, cmd.Namespace, CmdArgs.name)
DestKey == ActualKey(CmdKind, cmd.DestNamespace, CmdArgs.name)
CompositeKey == ActualKey(KindComposite, <<>>, NameX)
DestNamespaceKey == ActualKey(KindNamespace, <<>>, cmd.DestNamespace)

\* the calls of this run, by position
Calls(verb, key) == {i \in 1..Len(log) : log[i].verb = verb /\ log[i].key = key}
Ok(I) == {i \in I : log[i].err = Nil}

Count(s, c) == Cardinality({i \in 1..Len(s) : s[i] = c})

(***************************************************************************)
(* The gateway's reads on their own: GetResource and ResourceExists, which *)
(* Run does not call, asked for every kind of reference against every      *)
(* cluster, with and without a failing call.                               *)
(***************************************************************************)
GatewayRefs ==
    {Ref(k, ns, NameN) : k \in {KindBox, KindProxy}, ns \in {NsA, NsB}}
        \cup {Ref(KindComposite, <<>>, NameX), Ref(KindNamespace, <<>>, NsB)}

\* part_000:20-37
GatewayGet ==
    /\ pc \in {"start", "got", "exists"}
    /\ \E ref \in GatewayRefs, fault \in FaultChoices :
         LET a == IF fault THEN Failed(objs) ELSE ApiGet(objs, KeyOf(ref))
         IN  /\ Spend(fault)
             /\ log' = <<Call("get", KeyOf(ref), a.doc, a.err)>>
             /\ got' = GetResource(a)
    /\ pc' = "got"
    /\ UNCHANGED <<rival, cmd, objs, ret, locals, history, extLeft>>

\* part_000:39-43
GatewayExists ==
    /\ pc \in {"start", "got", "exists"}
    /\ \E ref \in GatewayRefs, fault \in FaultChoices :
         LET a == IF fault THEN Failed(objs) ELSE ApiGet(objs, KeyOf(ref))
             e == ResourceExists(a)
         IN  /\ Spend(fault)
             /\ log' = <<Call("get", KeyOf(ref), a.doc, a.err)>>
             /\ got' = [doc |-> <<>>, found |-> e.found, err |-> e.err]
    /\ pc' = "exists"
    /\ UNCHANGED <<rival, cmd, objs, ret, locals, history, extLeft>>

NextGateway == GatewayGet \/ GatewayExists

SpecGateway == Init /\ [][NextGateway]_vars

(***************************************************************************)
(* C10: getResourceAndName, by the number of '/' in the claim argument: an *)
(* empty argument or more than one '/' is rejected as invalid; one '/'     *)
(* yields the part before it and the part after it when no name is given   *)
(* separately, and is rejected as doubled when one is; no '/' yields the   *)
(* argument and the separate name when there is one, and is rejected as    *)
(* missing when there is none.                                             *)
(***************************************************************************)
C10_TokenParsing ==
    pc = "parsed" =>
        LET t == cmd.Claim
            k == Count(t, "/")
        IN  /\ (t = <<>> \/ k > 1) => ret = New(errInvalidResource)
            /\ (k = 1 /\ cmd.Name = <<>>) =>
                  /\ ret = Nil
                  /\ res \o <<"/">> \o name = t
                  /\ Count(res, "/") = 0
            /\ (k = 1 /\ cmd.Name # <<>>) => ret = New(errNameDoubled)
            /\ (t # <<>> /\ k = 0 /\ cmd.Name # <<>>) =>
                  ret = Nil /\ res = t /\ name = cmd.Name
            /\ (t # <<>> /\ k = 0 /\ cmd.Name = <<>>) => ret = New(errMissingName)

C10_Witness ==
    /\ pc = "parsed"
    /\ cmd.Claim = <<"b", "/", "n">>
    /\ cmd.Name = <<>>
    /\ res = <<"b">>
    /\ name = <<"n">>

(***************************************************************************)
(* C1: a run started in a cluster where the destination namespace exists,  *)
(* the claim exists in the source namespace and no claim of that type and  *)
(* name exists in the destination namespace, and that returns nil, leaves  *)
(* a cluster where a Get of the destination claim reports found, a Get of  *)
(* the source claim reports not found, and the composite's claim-namespace *)
(* label and claimRef namespace are the destination namespace.             *)
(***************************************************************************)
C1_Precondition ==
    /\ CmdResolves
    /\ DestNamespaceKey \in DOMAIN start
    /\ SourceKey \in DOMAIN start
    /\ DestKey \notin DOMAIN start

Found(ref) == GetResource(ApiGet(objs, KeyOf(ref))).found

CompositePointsAt(o, ns) ==
    /\ CompositeKey \in DOMAIN o
    /\ claimNamespaceLabel \in DOMAIN o[CompositeKey].labels
    /\ o[CompositeKey].labels[claimNamespaceLabel] = ns
    /\ o[CompositeKey].claimRef # <<>>
    /\ o[CompositeKey].claimRef[1].namespace = ns

C1_SuccessfulRun ==
    (pc = "done" /\ ret = Nil /\ C1_Precondition) =>
        /\ Found(Ref(CmdKind, cmd.DestNamespace, CmdArgs.name))
        /\ ~Found(Ref(CmdKind, cmd.Namespace, CmdArgs.name))
        /\ CompositePointsAt(objs, cmd.DestNamespace)

\* the same for the kinds whose resource name is the lowercased kind plus "s"
C1_RegularKind ==
    (CmdResolves /\ ResourceOf(CmdKind) = CmdType.mapping[1].resource) =>
        C1_SuccessfulRun

C1_RegularKindWitness ==
    /\ pc = "done" /\ ret = Nil /\ C1_Precondition
    /\ DestKey \in DOMAIN objs
    /\ SourceKey \notin DOMAIN objs

(***************************************************************************)
(* C2: when the destination-absence check finds a claim of that type and   *)
(* name in the destination namespace, Run returns the already-exists error *)
(* having issued no Create, Update or Delete, and the cluster is as it was *)
(* when the run started; a second run in that cluster ends the same way.   *)
(***************************************************************************)
Faulted == \E i \in 1..Len(log) : log[i].err = ServerError

C2_DestinationExists ==
    /\ DestinationFound =>
          /\ pc = "done"
          /\ Len(log) = 4
          /\ ret = Errorf(errClaimExists, <<CmdArgs.name, cmd.DestNamespace>>)
          /\ ~Wrote
          /\ objs = start
    /\ (prev # <<>> /\ prev[1].found /\ pc = "done" /\ ~Faulted) =>
          /\ DestinationFound
          /\ ret = prev[1].ret
          /\ objs = prev[1].start

C2_Witness ==
    /\ pc = "done"
    /\ DestinationFound
    /\ DestKey \in DOMAIN objs
    /\ prev # <<>>
    /\ prev[1].found

(***************************************************************************)
(* C3: the first remote call of every run is the Get of the destination    *)
(* namespace; when it answers not found, Run returns the error that names  *)
(* the namespace and issues no other call, so no Create, Update or Delete. *)
(***************************************************************************)
C3_NamespaceMissing ==
    /\ Len(log) >= 1 =>
          /\ log[1].verb = "get"
          /\ log[1].key = DestNamespaceKey
    /\ (Len(log) >= 1 /\ log[1].err = NotFound) =>
          /\ pc = "done"
          /\ ret = Errorf(errNamespaceMissing, <<cmd.DestNamespace>>)
          /\ Len(log) = 1
          /\ objs = start

C3_Witness ==
    /\ pc = "done"
    /\ Len(log) = 1
    /\ log[1].err = NotFound
    /\ DestNamespaceKey \notin DOMAIN objs
    /\ CmdResolves
    /\ SourceKey \in DOMAIN objs

(***************************************************************************)
(* C4: when the Get of the source claim reports not found, Run returns a   *)
(* non-nil error and has issued no Create, Update or Delete.               *)
(***************************************************************************)
SourceNotFound ==
    /\ pc = "done"
    /\ Len(log) = 3
    /\ log[3].verb = "get"
    /\ log[3].err = NotFound

C4_SourceNotFound == SourceNotFound => (ret # Nil /\ ~Wrote)

(***************************************************************************)
(* C5: when the resolved type is not namespaced, Run returns a non-nil     *)
(* error and has issued no Get of the source claim and no Create, Update   *)
(* or Delete.                                                              *)
(***************************************************************************)
NotNamespaced ==
    /\ pc \notin {"start", "resolve"}
    /\ Len(log) >= 2
    /\ log[2].err = Nil
    /\ CmdResolves
    /\ ~CmdType.mapping[1].namespaced

C5_NotNamespaced == NotNamespaced => (pc = "done" /\ ret # Nil /\ Len(log) = 2)

(***************************************************************************)
(* C6: when other writers make the composite's Update conflict fewer times *)
(* than the retry budget, every conflict is followed by a fresh Get of the *)
(* composite, and once the loop has ended an Update has committed, the     *)
(* composite points at the destination namespace and Run does not return   *)
(* the composite-update error.                                             *)
(***************************************************************************)
RepairUpdates == Calls("update", CompositeKey)
RepairConflicts == {i \in RepairUpdates : log[i].err = Conflict}
RepairFaulted ==
    \E i \in 1..Len(log) : log[i].key = CompositeKey /\ log[i].err = ServerError

C6_TransientConflict ==
    /\ \A i \in RepairConflicts :
          Cardinality({j \in RepairConflicts : j <= i}) < RetrySteps =>
              IF i = Len(log) THEN pc = "xr_get"
              ELSE log[i + 1].verb = "get" /\ log[i + 1].key = CompositeKey
    /\ ( /\ RepairConflicts # {}
         /\ Cardinality(RepairConflicts) < RetrySteps
         /\ pc \notin {"xr_get", "xr_update"}
         /\ ~RepairFaulted ) =>
          /\ Ok(RepairUpdates) # {}
          /\ CompositePointsAt(objs, cmd.DestNamespace)
          /\ (pc = "done" /\ ret # Nil) => ret[1].msg # errUpdateComposite

C6_Witness ==
    /\ pc = "done"
    /\ ret = Nil
    /\ Cardinality(RepairConflicts) = RetrySteps - 1
    /\ Ok(RepairUpdates) # {}

(***************************************************************************)
(* C7: every Delete Run issues is of the source claim and comes after a    *)
(* committed Update of the source claim whose document has no finalizers   *)
(* and no composite reference; the Delete is a call of its own, made after *)
(* a Get of its own, in a retry loop that starts with the whole budget.    *)
(***************************************************************************)
Deletes == {i \in 1..Len(log) : log[i].verb = "delete"}
SeverUpdates == Calls("update", SourceKey)

C7_SeverBeforeDelete ==
    /\ \A i \in Deletes :
          /\ log[i].key = SourceKey
          /\ log[i - 1].verb = "get" /\ log[i - 1].key = SourceKey
          /\ \E j \in Ok(SeverUpdates) :
                /\ j < i - 1
                /\ log[j].doc[1].finalizers = <<>>
                /\ log[j].doc[1].resourceRef = <<>>
    /\ (pc = "del_get" /\ log[Len(log)].verb = "update") => steps = RetrySteps

C7_Witness ==
    /\ Deletes # {}
    /\ \E j \in SeverUpdates : log[j].err = Conflict
    /\ start[SourceKey].finalizers # <<>>

(***************************************************************************)
(* C8: a Delete is issued only after the Create of the destination claim   *)
(* and, after that, an Update of the composite have succeeded; whenever    *)
(* the cluster held the source or the destination claim when the run       *)
(* started, it holds one of them in every state of the run; and Run never  *)
(* deletes or creates the composite, which stays the same document.        *)
(***************************************************************************)
C8_NoDataLoss ==
    /\ \A i \in Deletes :
          /\ log[i].key = SourceKey
          /\ \E j \in Ok(Calls("create", DestKey)) :
                \E k \in Ok(RepairUpdates) : j < k /\ k < i
    /\ (CmdResolves /\ (SourceKey \in DOMAIN start \/ DestKey \in DOMAIN start)) =>
          (SourceKey \in DOMAIN objs \/ DestKey \in DOMAIN objs)
    /\ \A i \in 1..Len(log) :
          log[i].verb \in {"create", "delete"} => log[i].key # CompositeKey
    /\ CompositeKey \in DOMAIN start =>
          /\ CompositeKey \in DOMAIN objs
          /\ objs[CompositeKey].uid = start[CompositeKey].uid

C8_Witness ==
    /\ pc = "done"
    /\ Ok(Deletes) # {}
    /\ SourceKey \notin DOMAIN objs
    /\ DestKey \in DOMAIN objs

(***************************************************************************)
(* C9: the document sent to Create is the source claim as the third call   *)
(* of the run fetched it, with the namespace set to the destination        *)
(* namespace and the resourceVersion cleared, and every other field the    *)
(* same.                                                                   *)
(***************************************************************************)
Creates == {i \in 1..Len(log) : log[i].verb = "create"}

C9_CopyOfSource ==
    \A i \in Creates :
        LET sent == log[i].doc[1]
            fetched == log[3].doc[1]
        IN  /\ log[3].verb = "get"
            /\ log[3].key = SourceKey
            /\ DOMAIN sent = DOMAIN fetched
            /\ sent.namespace = cmd.DestNamespace
            /\ sent.resourceVersion = 0
            /\ \A f \in DOMAIN fetched \ {"namespace", "resourceVersion"} :
                  sent[f] = fetched[f]

C9_Witness ==
    /\ Ok(Creates) # {}
    /\ \E i \in Creates :
          /\ log[i].doc[1].finalizers # <<>>
          /\ log[i].doc[1].resourceRef # <<>>
          /\ log[i].doc[1].namespace # log[3].doc[1].namespace
          /\ log[3].doc[1].resourceVersion # 0

(***************************************************************************)
(* C11, as stated: when every attempt of the composite repair or of the    *)
(* source severance fails with a conflict until the budget is used up, the *)
(* error Run returns is not the conflict error of a failed Update: what    *)
(* the step's message wraps is something else than that conflict.          *)
(***************************************************************************)
SeverConflicts == {i \in SeverUpdates : log[i].err = Conflict}
RepairExhausted == Cardinality(RepairConflicts) = RetrySteps
SeverExhausted == Cardinality(SeverConflicts) = RetrySteps

\* what the message of the failed step wraps
Cause(err) == Tail(err)

C12_TriState ==
    pc \in {"got", "exists"} =>
        LET c == log[1]
            stored == IF c.key \in DOMAIN objs THEN <<objs[c.key]>> ELSE <<>>
        IN  /\ c.err = NotFound => got = [doc |-> <<>>, found |-> FALSE, err |-> Nil]
            /\ c.err \notin {Nil, NotFound} =>
                  got = [doc |-> <<>>, found |-> FALSE, err |-> c.err]
            /\ (c.err = Nil /\ pc = "got") =>
                  got = [doc |-> stored, found |-> TRUE, err |-> Nil]
            /\ (c.err = Nil /\ pc = "exists") =>
                  /\ got.found /\ got.err = Nil
                  /\ stored # <<>>
            /\ (c.err = NotFound) => stored = <<>>

C12_Witness ==
    /\ pc = "exists"
    /\ log[1].err = NotFound
    /\ log[1].key[1] = ResourceOf(KindBox)
    /\ ~got.found
    /\ got.err = Nil

(***************************************************************************)
(* C13: every Update Run sends is built from the document that the Get     *)
(* just before it, in the same attempt, returned: it carries that          *)
(* document's resourceVersion and, in every field Run does not set, that   *)
(* document's value.  No write of another actor is lost: as long as the    *)
(* source claim is there, the composite and the source claim hold every    *)
(* write the other actors made.                                            *)
(***************************************************************************)
Updates == {i \in 1..Len(log) : log[i].verb = "update"}

\* the fields the repair and the severance set
SetBy(key) ==
    IF key = CompositeKey THEN {"claimRef", "labels"}
    ELSE {"resourceRef", "finalizers"}

ExtOf(o, key) == IF key \in DOMAIN o THEN o[key].ext ELSE 0

C13_FreshFetch ==
    /\ \A i \in Updates :
          /\ i > 1
          /\ log[i - 1].verb = "get"
          /\ log[i - 1].key = log[i].key
          /\ log[i - 1].err = Nil
          /\ LET fetched == log[i - 1].doc[1]
                 sent == log[i].doc[1]
             IN  /\ DOMAIN sent = DOMAIN fetched
                 /\ \A f \in DOMAIN fetched \ SetBy(log[i].key) :
                       sent[f] = fetched[f]
    /\ (CmdResolves /\ SourceKey \in DOMAIN objs) =>
          ExtOf(objs, CompositeKey) + ExtOf(objs, SourceKey) = MaxExt - extLeft

C13_Witness ==
    /\ pc = "done"
    /\ ret = Nil
    /\ RepairConflicts # {}
    /\ SeverConflicts # {}
    /\ ExtOf(objs, CompositeKey) > 1
    /\ CompositePointsAt(objs, cmd.DestNamespace)

(***************************************************************************)
(* C14, as stated: every run that starts ends in Done or Aborted, that is  *)
(* with Run returning nil or an error, whatever the other actors do.       *)
(***************************************************************************)
C14_Terminates == (pc = "start") ~> (pc = "done")

(***************************************************************************)
(* C14, the part that holds: no loop of Run makes more than RetrySteps     *)
(* attempts, so a run makes a bounded number of calls, and every run that  *)
(* starts stops, be it by returning or by the panic of C20.                *)
(***************************************************************************)
C14_BoundedAttempts ==
    /\ steps \in 1..RetrySteps
    /\ CmdResolves =>
          /\ Cardinality(Calls("get", CompositeKey)) <= RetrySteps
          /\ Cardinality(RepairUpdates) <= RetrySteps
          /\ Cardinality(SeverUpdates) <= RetrySteps
          /\ Cardinality(Deletes) <= RetrySteps
          /\ Cardinality(Calls("get", SourceKey)) <= 1 + 2 * RetrySteps
    /\ Len(log) <= 5 + 6 * RetrySteps

C14_Stops == (pc = "start") ~> (pc \in {"done", "panic"})

(***************************************************************************)
(* C15: in the retry loops, which make the calls after the fifth of a run, *)
(* a call that fails otherwise than by a conflict (a Get that fails or     *)
(* finds nothing, an Update or a Delete rejected for another reason) is    *)
(* the last call of the run: the loop makes no further attempt, and Run is *)
(* done with that failure wrapped in the message of the step.              *)
(***************************************************************************)
LoopCalls == {i \in 1..Len(log) : i > 5}

StepMessage(key) ==
    IF key = CompositeKey THEN errUpdateComposite ELSE errDeleteSource

C15_NoRetryOnOtherFailure ==
    \A i \in LoopCalls :
        log[i].err \notin {Nil, Conflict} =>
            /\ i = Len(log)
            /\ pc = "done"
            /\ ret = Wrap(log[i].err, StepMessage(log[i].key))

C15_Witness ==
    /\ pc = "done"
    /\ Len(log) > 5
    /\ log[Len(log)].verb = "update"
    /\ log[Len(log)].err = ServerError
    /\ steps < RetrySteps
    /\ steps > 1

(***************************************************************************)
(* C16: when the composite repair fails, by a call that fails otherwise    *)
(* than by a conflict or by using up the retry budget, Run is done with    *)
(* "unable to update composite with new claim" wrapped around the failure, *)
(* and that failing call is the last call of the run: the destination      *)
(* claim this run created is there, the composite has the label and the    *)
(* claimRef it had, which name the source namespace, the source claim is   *)
(* there with the composite reference and the finalizers it had, and Run   *)
(* has sent no Delete and no Update of the source claim.                   *)
(***************************************************************************)
RepairCalls == {i \in LoopCalls : log[i].key = CompositeKey}

RepairFailed ==
    \/ \E i \in RepairCalls : log[i].err \notin {Nil, Conflict}
    \/ RepairExhausted

C16_RepairFailureState ==
    (CmdResolves /\ RepairFailed) =>
        /\ pc = "done"
        /\ ret = Wrap(log[Len(log)].err, errUpdateComposite)
        /\ Len(log) \in RepairCalls
        /\ Ok(Creates) # {}
        /\ DestKey \in DOMAIN objs
        /\ objs[DestKey] = dstClaim[1]
        /\ CompositeKey \in DOMAIN objs =>
              /\ objs[CompositeKey].labels = start[CompositeKey].labels
              /\ objs[CompositeKey].claimRef = start[CompositeKey].claimRef
              /\ objs[CompositeKey].claimRef[1].namespace = cmd.Namespace
              /\ claimNamespaceLabel \in DOMAIN objs[CompositeKey].labels =>
                    objs[CompositeKey].labels[claimNamespaceLabel] = cmd.Namespace
        /\ Ok(RepairUpdates) = {}
        /\ SourceKey \in DOMAIN objs
        /\ \A f \in DOMAIN objs[SourceKey] \ {"ext", "resourceVersion"} :
              objs[SourceKey][f] = start[SourceKey][f]
        /\ objs[SourceKey].resourceRef # <<>>
        /\ SeverUpdates = {}
        /\ Deletes = {}
        /\ {i \in 1..Len(log) : log[i].verb \in Mutating} \subseteq Creates \cup RepairUpdates

C16_Witness ==
    /\ RepairExhausted
    /\ pc = "done"
    /\ start[SourceKey].finalizers # <<>>
    /\ objs[SourceKey].finalizers # <<>>
    /\ CompositePointsAt(objs, cmd.Namespace)
    /\ DestKey \in DOMAIN objs

(***************************************************************************)
(* C17, as stated: whenever Run is done with "unable to delete source      *)
(* claim", the destination claim is there, the composite names the         *)
(* destination namespace in its label and its claimRef, and the source     *)
(* claim is there without a reference to the composite.                    *)
(***************************************************************************)
RetirementFailed == pc = "done" /\ ret # Nil /\ ret[1].msg = errDeleteSource

C17_SourceInert ==
    (CmdResolves /\ RetirementFailed) =>
        /\ DestKey \in DOMAIN objs
        /\ CompositePointsAt(objs, cmd.DestNamespace)
        /\ SourceKey \in DOMAIN objs
        /\ objs[SourceKey].resourceRef = <<>>

(***************************************************************************)
(* C17, amended: whenever a call of the severance or of the deletion fails *)
(* otherwise than by a retried conflict, Run is done with "unable to       *)
(* delete source claim" wrapped around the failure, the destination claim  *)
(* is there, the composite names the destination namespace in its label    *)
(* and its claimRef, and the source claim is there: without composite      *)
(* reference and finalizers when the severing Update had committed, and    *)
(* with the composite reference and the finalizers it had when it had not. *)
(***************************************************************************)
RetireCalls == {i \in LoopCalls : log[i].key = SourceKey}

RetireFailedCall ==
    \/ \E i \in RetireCalls : log[i].err \notin {Nil, Conflict}
    \/ SeverExhausted

C17_SourceInertOnceSevered ==
    (CmdResolves /\ RetireFailedCall) =>
        /\ pc = "done"
        /\ ret = Wrap(log[Len(log)].err, errDeleteSource)
        /\ DestKey \in DOMAIN objs
        /\ CompositePointsAt(objs, cmd.DestNamespace)
        /\ SourceKey \in DOMAIN objs
        /\ IF Ok(SeverUpdates) # {}
           THEN /\ objs[SourceKey].resourceRef = <<>>
                /\ objs[SourceKey].finalizers = <<>>
           ELSE /\ objs[SourceKey].resourceRef = start[SourceKey].resourceRef
                /\ objs[SourceKey].resourceRef # <<>>
                /\ objs[SourceKey].finalizers = start[SourceKey].finalizers

C17_Witness ==
    /\ RetirementFailed
    /\ Ok(SeverUpdates) # {}
    /\ log[Len(log)].verb = "delete"
    /\ start[SourceKey].finalizers # <<>>
    /\ objs[SourceKey].resourceRef = <<>>

(***************************************************************************)
(* C18: when the Create of the destination claim fails, Run is done with   *)
(* "unable to create destination claim" wrapped around the failure, the    *)
(* Create is the fifth and last call of the run, and the cluster is as it  *)
(* was when the run started but for what other actors wrote: the same      *)
(* documents, no destination claim, and every field of every document but  *)
(* the other actors' unchanged.  The run after a run that ended so starts  *)
(* from the cluster the first run started from.                            *)
(***************************************************************************)
CreateFailed(e) ==
    /\ e # Nil
    /\ e[1].msg = errCreateDestClaim

SameButExt(o, p) ==
    /\ DOMAIN o = DOMAIN p
    /\ \A k \in DOMAIN o :
          \A f \in DOMAIN o[k] \ {"ext", "resourceVersion"} : o[k][f] = p[k][f]

C18_CreateFailureFrame ==
    /\ (\E i \in Creates : log[i].err # Nil) =>
          /\ pc = "done"
          /\ Len(log) = 5
          /\ ret = Wrap(Wrap(log[5].err, errUnableToCreate), errCreateDestClaim)
          /\ CreateFailed(ret)
          /\ DestKey \notin DOMAIN objs
          /\ SameButExt(objs, start)
    /\ (prev # <<>> /\ CreateFailed(prev[1].ret)) =>
          SameButExt(start, prev[1].start)

C18_Witness ==
    /\ prev # <<>>
    /\ CreateFailed(prev[1].ret)
    /\ pc = "done"
    /\ ret = Nil
    /\ Ok(Creates) # {}
    /\ Ok(Deletes) # {}
    /\ DestKey \in DOMAIN objs

(***************************************************************************)
(* C19: when two invocations of the same migration both pass the           *)
(* destination-absence check, Create succeeds for one of them only; for    *)
(* the other it fails with already-exists, and that invocation is done     *)
(* with "unable to create destination claim" after its fifth call, having  *)
(* sent no Update and no Delete.  In every state of the two runs the       *)
(* cluster holds the source claim or the destination claim, and once the   *)
(* invocation whose Create succeeded has returned nil, the composite names *)
(* the destination namespace, which holds the claim.                       *)
(***************************************************************************)
CreatesIn(l) == {i \in 1..Len(l) : l[i].verb = "create"}
CreatedIn(l) == {i \in CreatesIn(l) : l[i].err = Nil}

PassedIn(l) == Len(l) >= 4 /\ l[4].verb = "get" /\ l[4].err = NotFound

BothPassed == PassedIn(log) /\ PassedIn(rival.log)

\* how the invocation with the calls l, at position at with result e, lost
LostCreate(l, at, e) ==
    /\ at = "done"
    /\ Len(l) = 5
    /\ l[5].err = AlreadyExists
    /\ e = Wrap(Wrap(AlreadyExists, errUnableToCreate), errCreateDestClaim)
    /\ \A i \in 1..Len(l) : l[i].verb \notin {"update", "delete"}

C19_RacingCreates ==
    BothPassed =>
        /\ ~(CreatedIn(log) # {} /\ CreatedIn(rival.log) # {})
        /\ (CreatesIn(log) # {} /\ CreatesIn(rival.log) # {}) =>
              (CreatedIn(log) # {} \/ CreatedIn(rival.log) # {})
        /\ (CreatesIn(log) # {} /\ CreatedIn(log) = {}) => LostCreate(log, pc, ret)
        /\ (CreatesIn(rival.log) # {} /\ CreatedIn(rival.log) = {}) =>
              LostCreate(rival.log, rival.pc, rival.ret)
        /\ SourceKey \in DOMAIN objs \/ DestKey \in DOMAIN objs
        /\ ( \/ CreatedIn(log) # {} /\ pc = "done" /\ ret = Nil
             \/ CreatedIn(rival.log) # {} /\ rival.pc = "done" /\ rival.ret = Nil ) =>
              /\ CompositePointsAt(objs, cmd.DestNamespace)
              /\ DestKey \in DOMAIN objs
              /\ SourceKey \notin DOMAIN objs

C19_Witness ==
    /\ BothPassed
    /\ LostCreate(log, pc, ret)
    /\ rival.pc = "done"
    /\ rival.ret = Nil
    /\ \E i \in 1..Len(rival.log) : rival.log[i].verb = "delete"
    /\ log[5].doc[1].finalizers # <<>>
    /\ SourceKey \notin DOMAIN objs
    /\ DestKey \in DOMAIN objs

(***************************************************************************)
(* C20: once the destination claim is created, Run does not stop otherwise *)
(* than by returning: it is never at a panic, whatever the source claim    *)
(* and the composite are, in particular when the copied claim names no     *)
(* composite and when the composite has no labels.                         *)
(***************************************************************************)
C20_AlwaysReturns == Ok(Creates) # {} => pc # "panic"

====
